---- MODULE Spec2Model ----
(***************************************************************************)
(* Model of swap/cheque.go: the cheque codec (encodeForSignature), the     *)
(* signer/verifier (sigHash, Sign, VerifySig), structural equality (Equal) *)
(* and the progression validator (verifyChequeProperties,                  *)
(* verifyChequeAgainstLast), together with the per-channel "last cheque"   *)
(* state machine that the validator serves.                                *)
(*                                                                         *)
(* uint64 values are kept at full width: a uint64 is a tuple of four       *)
(* 16-bit limbs, most significant first, so that comparison, wrapping      *)
(* subtraction and the big-endian byte layout are computed as Go computes  *)
(* them without leaving TLC's integer range.                               *)
(***************************************************************************)
EXTENDS Integers, Sequences, FiniteSets, TLC

VARIABLES call, lastCheque, history, outcome, locked, mutex, pc, snap, incoming, verdict

vars == <<call, lastCheque, history, outcome, locked, mutex, pc, snap, incoming, verdict>>

(***************************************************************************)
(* Bounds of the input spaces.                                             *)
(***************************************************************************)
MaxSerial == 3
MaxAmount == 3
MaxKey == 2
MaxHistory == 3

(***************************************************************************)
(* uint64 arithmetic.                                                      *)
(***************************************************************************)
LimbBase == 256 * 256

Uint64(n) == <<0, 0, 0, n>>

MaxUint64 == <<LimbBase - 1, LimbBase - 1, LimbBase - 1, LimbBase - 1>>

U64Zero == Uint64(0)

\* a < b on uint64
U64Less(a, b) ==
    \E i \in 1..4 : a[i] < b[i] /\ \A j \in 1..(i - 1) : a[j] = b[j]

\* a <= b on uint64
U64LessEq(a, b) == a = b \/ U64Less(a, b)

\* a - b on uint64, wrapping modulo 2^64 as Go's unsigned subtraction does
U64Sub(a, b) ==
    LET d4 == a[4] - b[4]
        w4 == IF d4 < 0 THEN 1 ELSE 0
        d3 == a[3] - b[3] - w4
        w3 == IF d3 < 0 THEN 1 ELSE 0
        d2 == a[2] - b[2] - w3
        w2 == IF d2 < 0 THEN 1 ELSE 0
        d1 == a[1] - b[1] - w2
    IN  <<(d1 + LimbBase) % LimbBase, (d2 + LimbBase) % LimbBase,
          (d3 + LimbBase) % LimbBase, (d4 + LimbBase) % LimbBase>>

\* a + b on uint64, wrapping modulo 2^64
U64Add(a, b) ==
    LET s4 == a[4] + b[4]
        s3 == a[3] + b[3] + (s4 \div LimbBase)
        s2 == a[2] + b[2] + (s3 \div LimbBase)
        s1 == a[1] + b[1] + (s2 \div LimbBase)
    IN  <<s1 % LimbBase, s2 % LimbBase, s3 % LimbBase, s4 % LimbBase>>

\* binary.BigEndian.PutUint64: the eight bytes of v, most significant first
PutUint64(v) ==
    [i \in 1..8 |-> IF i % 2 = 1 THEN v[(i + 1) \div 2] \div 256
                                 ELSE v[i \div 2] % 256]

(***************************************************************************)
(* Errors.  An error is a record of its message class, the field it is     *)
(* about and the formatted arguments; Nil is the nil error.                *)
(***************************************************************************)
Nil == [class |-> "nil", what |-> "", args |-> <<>>]

Errorf(class, what, args) == [class |-> class, what |-> what, args |-> args]

ErrInvalidChequeSignature == Errorf("invalid cheque signature", "", <<>>)

\* a nil []byte
NilBytes == [nil |-> TRUE, len |-> 0, rs |-> <<>>, v |-> 0]

(***************************************************************************)
(* Addresses, keys and the cryptographic primitives of go-ethereum.        *)
(***************************************************************************)
\* common.Address: a 20-byte array; Address(n) is the n-th address of the model
Address(n) ==
    [i \in 1..20 |-> IF i = 1 THEN n ELSE IF i = 20 THEN 255 - n ELSE 0]

\* private keys; key 0 stands for a key the signing primitive rejects
Keys == 1..MaxKey

InvalidKey == 0

\* the public key SigToPub recovers when the signature was not made over the
\* given hash with the given recovery id: a key nobody in the model holds
UnrelatedPub == MaxKey + 2

\* crypto.PubkeyToAddress: one address per public key
PubkeyToAddress(pub) == Address(pub)

\* crypto.Keccak256 as an ideal (collision-free) hash
Keccak256(bytes) == <<"keccak256", bytes>>

\* crypto.Sign: a 65-byte signature r || s || v over hash with key prv, where
\* v is the raw recovery id (0 or 1) the primitive produced; an error for a
\* key it rejects.  The 64 bytes r || s are kept as the triple they bind.
CryptoSign(hash, prv, recid) ==
    IF prv \notin Keys
        THEN [sig |-> NilBytes, err |-> Errorf("invalid private key", "", <<>>)]
        ELSE [sig |-> [nil |-> FALSE, len |-> 65, rs |-> <<prv, hash, recid>>, v |-> recid],
              err |-> Nil]

\* crypto.SigToPub: the public key recovered from hash and a 65-byte signature
\* with a raw recovery id; an error when the id is not 0 or 1 or when r || s
\* is no curve point; the signer's key when the signature was made over this
\* hash with this id, and an unrelated key otherwise
SigToPub(hash, sig) ==
    IF sig.v \notin {0, 1}
        THEN [pub |-> 0, err |-> Errorf("invalid signature recovery id", "", <<>>)]
    ELSE IF sig.rs = <<>>
        THEN [pub |-> 0, err |-> Errorf("recovery failed", "", <<>>)]
    ELSE IF sig.rs[2] = hash /\ sig.rs[3] = sig.v
        THEN [pub |-> sig.rs[1], err |-> Nil]
    ELSE [pub |-> UnrelatedPub, err |-> Nil]

(***************************************************************************)
(* Codec.                                                                  *)
(***************************************************************************)
\* make([]byte, 32) with PutUint64 written into [24:]
Uint64Field(v) ==
    [i \in 1..32 |-> IF i > 24 THEN PutUint64(v)[i - 24] ELSE 0]

\* encodeForSignature with the timeout never written into its field
encodeForSignature_TimeoutNotWritten(cheque) ==
    LET serialBytes == Uint64Field(cheque.Serial)
        amountBytes == Uint64Field(cheque.Amount)
        timeoutBytes == [i \in 1..32 |-> 0]
    IN  cheque.Contract \o cheque.Beneficiary \o serialBytes \o amountBytes \o timeoutBytes

encodeForSignature(cheque) ==
    LET serialBytes == Uint64Field(cheque.Serial)
        amountBytes == Uint64Field(cheque.Amount)
        timeoutBytes == Uint64Field(cheque.Timeout)
    IN  cheque.Contract \o cheque.Beneficiary \o serialBytes \o amountBytes \o timeoutBytes

sigHash(cheque) ==
    LET encoded == encodeForSignature(cheque)
        input == Keccak256(encoded)
        withPrefix == <<"\\x19Ethereum Signed Message:\\n", 32, input>>
    IN  Keccak256(withPrefix)

(***************************************************************************)
(* Signer / verifier.                                                      *)
(***************************************************************************)
\* VerifySig working on the cheque's own slice instead of a copy
VerifySig_InPlace(cheque, expectedSigner) ==
    LET hash == Keccak256(<<"\\x19Ethereum Signed Message:\\n", 32,
                            Keccak256(encodeForSignature(cheque))>>)
        sig == [cheque.Signature EXCEPT !.v = (cheque.Signature.v + 256 - 27) % 256]
        rec == SigToPub(hash, sig)
    IN  IF cheque.Signature.nil
            THEN [err |-> Errorf("tried to verify signature on cheque with sig nil", "", <<>>),
                  Signature |-> cheque.Signature]
        ELSE IF cheque.Signature.len # 65
            THEN [err |-> Errorf("signature has invalid length", "", <<cheque.Signature.len>>),
                  Signature |-> cheque.Signature]
        ELSE IF rec.err # Nil
            THEN [err |-> rec.err, Signature |-> sig]
        ELSE IF PubkeyToAddress(rec.pub) # expectedSigner
            THEN [err |-> ErrInvalidChequeSignature, Signature |-> sig]
        ELSE [err |-> Nil, Signature |-> sig]

\* VerifySig returns its error and, as Signature, the bytes the cheque's
\* signature slice holds when the call returns
VerifySig(cheque, expectedSigner) ==
    LET hash == sigHash(cheque)
        \* copy signature to avoid modifying the original
        copied == cheque.Signature
        sig == [copied EXCEPT !.v = (copied.v + 256 - 27) % 256]
        rec == SigToPub(hash, sig)
    IN  IF cheque.Signature.nil
            THEN [err |-> Errorf("tried to verify signature on cheque with sig nil", "", <<>>),
                  Signature |-> cheque.Signature]
        ELSE IF cheque.Signature.len # 65
            THEN [err |-> Errorf("signature has invalid length", "", <<cheque.Signature.len>>),
                  Signature |-> cheque.Signature]
        ELSE IF rec.err # Nil
            THEN [err |-> rec.err, Signature |-> cheque.Signature]
        ELSE IF PubkeyToAddress(rec.pub) # expectedSigner
            THEN [err |-> ErrInvalidChequeSignature, Signature |-> cheque.Signature]
        ELSE [err |-> Nil, Signature |-> cheque.Signature]

\* Sign with the recovery id the signing primitive produces for this hash and key
Sign(cheque, prv, recid) ==
    LET res == CryptoSign(sigHash(cheque), prv, recid)
    IN  IF res.err # Nil
            THEN [sig |-> NilBytes, err |-> res.err]
            ELSE [sig |-> [res.sig EXCEPT !.v = (res.sig.v + 27) % 256], err |-> Nil]

\* bytes.Equal: same length and same content; a nil slice equals an empty one
BytesEqual(a, b) == <<a.len, a.rs, a.v>> = <<b.len, b.rs, b.v>>

Equal(cheque, other) ==
    IF cheque.Serial # other.Serial THEN FALSE
    ELSE IF cheque.Beneficiary # other.Beneficiary THEN FALSE
    ELSE IF cheque.Amount # other.Amount THEN FALSE
    ELSE IF cheque.Timeout # other.Timeout THEN FALSE
    ELSE IF cheque.Honey # other.Honey THEN FALSE
    ELSE IF ~BytesEqual(cheque.Signature, other.Signature) THEN FALSE
    ELSE TRUE

(***************************************************************************)
(* Progression validator.                                                  *)
(***************************************************************************)
\* verifyChequeProperties taking the cheque's beneficiary field for the signer
verifyChequeProperties_SignerIsBeneficiaryField(cheque, p, expectedBeneficiary) ==
    LET sigRes == VerifySig(cheque, cheque.Beneficiary)
    IN  IF cheque.Contract # p.contractAddress
            THEN Errorf("wrong cheque parameters", "contract", <<p.contractAddress, cheque.Contract>>)
        ELSE IF sigRes.err # Nil
            THEN sigRes.err
        ELSE IF cheque.Beneficiary # expectedBeneficiary
            THEN Errorf("wrong cheque parameters", "beneficiary", <<expectedBeneficiary, cheque.Beneficiary>>)
        ELSE IF cheque.Timeout # U64Zero
            THEN Errorf("wrong cheque parameters", "timeout", <<cheque.Timeout>>)
        ELSE Nil

\* verifyChequeProperties without the timeout check
verifyChequeProperties_NoTimeoutCheck(cheque, p, expectedBeneficiary) ==
    LET sigRes == VerifySig(cheque, p.beneficiary)
    IN  IF cheque.Contract # p.contractAddress
            THEN Errorf("wrong cheque parameters", "contract", <<p.contractAddress, cheque.Contract>>)
        ELSE IF sigRes.err # Nil
            THEN sigRes.err
        ELSE IF cheque.Beneficiary # expectedBeneficiary
            THEN Errorf("wrong cheque parameters", "beneficiary", <<expectedBeneficiary, cheque.Beneficiary>>)
        ELSE Nil

verifyChequeProperties(cheque, p, expectedBeneficiary) ==
    LET sigRes == VerifySig(cheque, p.beneficiary)
    IN  IF cheque.Contract # p.contractAddress
            THEN Errorf("wrong cheque parameters", "contract", <<p.contractAddress, cheque.Contract>>)
        ELSE IF sigRes.err # Nil
            THEN sigRes.err
        ELSE IF cheque.Beneficiary # expectedBeneficiary
            THEN Errorf("wrong cheque parameters", "beneficiary", <<expectedBeneficiary, cheque.Beneficiary>>)
        ELSE IF cheque.Timeout # U64Zero
            THEN Errorf("wrong cheque parameters", "timeout", <<cheque.Timeout>>)
        ELSE Nil

\* the nil *Cheque
NoCheque == [isNil |-> TRUE]

\* verifyChequeAgainstLast comparing the serial with < instead of <=
verifyChequeAgainstLast_SerialEqualAccepted(cheque, last, expectedAmount) ==
    LET actualAmount == IF last # NoCheque THEN U64Sub(cheque.Amount, last.Amount)
                                           ELSE cheque.Amount
    IN  IF last # NoCheque /\ U64Less(cheque.Serial, last.Serial)
            THEN [amount |-> U64Zero,
                  err |-> Errorf("wrong cheque parameters", "serial", <<last.Serial, cheque.Serial>>)]
        ELSE IF last # NoCheque /\ U64LessEq(cheque.Amount, last.Amount)
            THEN [amount |-> U64Zero,
                  err |-> Errorf("wrong cheque parameters", "amount", <<last.Amount, cheque.Amount>>)]
        ELSE IF expectedAmount # actualAmount
            THEN [amount |-> U64Zero,
                  err |-> Errorf("unexpected amount for honey", "", <<expectedAmount, actualAmount>>)]
        ELSE [amount |-> actualAmount, err |-> Nil]

\* verifyChequeAgainstLast checking the amount before the serial
verifyChequeAgainstLast_AmountFirst(cheque, last, expectedAmount) ==
    LET actualAmount == IF last # NoCheque THEN U64Sub(cheque.Amount, last.Amount)
                                           ELSE cheque.Amount
    IN  IF last # NoCheque /\ U64LessEq(cheque.Amount, last.Amount)
            THEN [amount |-> U64Zero,
                  err |-> Errorf("wrong cheque parameters", "amount", <<last.Amount, cheque.Amount>>)]
        ELSE IF last # NoCheque /\ U64LessEq(cheque.Serial, last.Serial)
            THEN [amount |-> U64Zero,
                  err |-> Errorf("wrong cheque parameters", "serial", <<last.Serial, cheque.Serial>>)]
        ELSE IF expectedAmount # actualAmount
            THEN [amount |-> U64Zero,
                  err |-> Errorf("unexpected amount for honey", "", <<expectedAmount, actualAmount>>)]
        ELSE [amount |-> actualAmount, err |-> Nil]

\* verifyChequeAgainstLast without the check that the amount increased
verifyChequeAgainstLast_NoAmountCheck(cheque, last, expectedAmount) ==
    LET actualAmount == IF last # NoCheque THEN U64Sub(cheque.Amount, last.Amount)
                                           ELSE cheque.Amount
    IN  IF last # NoCheque /\ U64LessEq(cheque.Serial, last.Serial)
            THEN [amount |-> U64Zero,
                  err |-> Errorf("wrong cheque parameters", "serial", <<last.Serial, cheque.Serial>>)]
        ELSE IF expectedAmount # actualAmount
            THEN [amount |-> U64Zero,
                  err |-> Errorf("unexpected amount for honey", "", <<expectedAmount, actualAmount>>)]
        ELSE [amount |-> actualAmount, err |-> Nil]

verifyChequeAgainstLast(cheque, last, expectedAmount) ==
    LET actualAmount == IF last # NoCheque THEN U64Sub(cheque.Amount, last.Amount)
                                           ELSE cheque.Amount
    IN  IF last # NoCheque /\ U64LessEq(cheque.Serial, last.Serial)
            THEN [amount |-> U64Zero,
                  err |-> Errorf("wrong cheque parameters", "serial", <<last.Serial, cheque.Serial>>)]
        ELSE IF last # NoCheque /\ U64LessEq(cheque.Amount, last.Amount)
            THEN [amount |-> U64Zero,
                  err |-> Errorf("wrong cheque parameters", "amount", <<last.Amount, cheque.Amount>>)]
        ELSE IF expectedAmount # actualAmount
            THEN [amount |-> U64Zero,
                  err |-> Errorf("unexpected amount for honey", "", <<expectedAmount, actualAmount>>)]
        ELSE [amount |-> actualAmount, err |-> Nil]

(***************************************************************************)
(* Input spaces.                                                           *)
(***************************************************************************)
\* a uint64 whose eight bytes are 1, 2, ..., 8
Bytes1To8 == <<258, 772, 1286, 1800>>

Serials == {Uint64(n) : n \in 0..MaxSerial} \cup {MaxUint64}

Amounts == {Uint64(n) : n \in 0..MaxAmount} \cup {<<0, 0, 1, 0>>, MaxUint64}

Timeouts == {U64Zero, Uint64(5)}

Honeys == {Uint64(1), Uint64(7)}

ContractAddresses == {Address(200), Address(201)}

\* the addresses of the model's keys, and one address whose key nobody holds
Addresses == {Address(n) : n \in 1..(MaxKey + 1)}

Beneficiaries == {Address(1), Address(2)}

Peers == [contractAddress : ContractAddresses, beneficiary : Addresses]

\* every difference of two amounts, wrapped ones included
ExpectedAmounts == {U64Sub(a, b) : a \in Amounts, b \in Amounts}

MkCheque(contract, beneficiary, serial, amount, timeout, honey, signature) ==
    [Contract |-> contract, Beneficiary |-> beneficiary, Serial |-> serial,
     Amount |-> amount, Timeout |-> timeout, Honey |-> honey, Signature |-> signature]

\* unsigned cheques over the reduced value sets used where pairs are drawn
SmallCheques ==
    {MkCheque(c, b, s, a, t, Uint64(1), NilBytes) :
        c \in ContractAddresses, b \in Beneficiaries,
        s \in {U64Zero, Uint64(MaxSerial), MaxUint64},
        a \in {Uint64(MaxAmount), <<0, 0, 1, 0>>, Bytes1To8},
        t \in Timeouts}

\* unsigned cheques that differ in serial and amount only
PlainCheques ==
    {MkCheque(Address(200), Address(2), s, a, U64Zero, Uint64(1), NilBytes) :
        s \in Serials, a \in Amounts}

\* a 65-byte signature whose r || s is no curve point
JunkSignature == [nil |-> FALSE, len |-> 65, rs |-> <<>>, v |-> 27]

\* the signatures a cheque may arrive with: none, an empty or a truncated
\* one, junk, the issuer's signature by any key, the same with the raw
\* recovery id left in place, with the other recovery id, and a signature
\* made over another cheque
SignaturesFor(cheque) ==
    LET signed == {Sign(cheque, k, r).sig : k \in Keys, r \in {0, 1}}
        other == [cheque EXCEPT !.Amount = U64Add(cheque.Amount, Uint64(1))]
    IN  {NilBytes, [NilBytes EXCEPT !.nil = FALSE], JunkSignature}
        \cup signed
        \cup {[sg EXCEPT !.len = 64, !.v = 0] : sg \in signed}
        \cup {[sg EXCEPT !.v = sg.rs[3]] : sg \in signed}
        \cup {[sg EXCEPT !.v = 55 - sg.v] : sg \in signed}
        \cup {Sign(other, k, 0).sig : k \in Keys}

(***************************************************************************)
(* Calls of the pure functions: call holds the function called, its        *)
(* arguments and what it returned; Idle between calls.                     *)
(***************************************************************************)
Idle == [op |-> "idle"]

CallEncode ==
    /\ call = Idle
    /\ \E a \in SmallCheques, b \in SmallCheques, h \in Honeys, sg \in {NilBytes, JunkSignature} :
          LET other == [b EXCEPT !.Honey = h, !.Signature = sg]
          IN  call' = [op |-> "encodeForSignature", cheque |-> a, other |-> other,
                       bytes |-> encodeForSignature(a),
                       otherBytes |-> encodeForSignature(other)]
    /\ UNCHANGED <<lastCheque, history, outcome, locked, mutex, pc, snap, incoming, verdict>>

CallEqual ==
    /\ call = Idle
    /\ \E c \in ContractAddresses, b \in Beneficiaries, s \in {U64Zero, MaxUint64},
          a \in {Uint64(1), <<0, 0, 1, 0>>}, t \in Timeouts, h \in Honeys,
          c2 \in ContractAddresses, b2 \in Beneficiaries, s2 \in {U64Zero, MaxUint64},
          a2 \in {Uint64(1), <<0, 0, 1, 0>>}, t2 \in Timeouts, h2 \in Honeys :
          LET base == MkCheque(c, b, s, a, t, h, NilBytes)
              sigs == {NilBytes, [NilBytes EXCEPT !.nil = FALSE], JunkSignature,
                       Sign(base, 1, 0).sig, Sign(base, 1, 1).sig}
          IN  \E sg \in sigs, sg2 \in sigs :
                LET x == MkCheque(c, b, s, a, t, h, sg)
                    y == MkCheque(c2, b2, s2, a2, t2, h2, sg2)
                IN  call' = [op |-> "Equal", cheque |-> x, other |-> y,
                             result |-> Equal(x, y), converse |-> Equal(y, x),
                             self |-> Equal(x, x)]
    /\ UNCHANGED <<lastCheque, history, outcome, locked, mutex, pc, snap, incoming, verdict>>

CallSign ==
    /\ call = Idle
    /\ \E c \in SmallCheques, prv \in Keys \cup {InvalidKey}, recid \in {0, 1} :
          LET res == Sign(c, prv, recid)
          IN  call' = [op |-> "Sign", cheque |-> c, prv |-> prv, sig |-> res.sig, err |-> res.err]
    /\ UNCHANGED <<lastCheque, history, outcome, locked, mutex, pc, snap, incoming, verdict>>

\* the caller stores the signature Sign returned in the cheque and verifies it
CallVerifySigned ==
    /\ call.op = "Sign"
    /\ call.err = Nil
    /\ \E expectedSigner \in Addresses :
          LET c == [call.cheque EXCEPT !.Signature = call.sig]
              res == VerifySig(c, expectedSigner)
          IN  call' = [op |-> "VerifySig", cheque |-> c, signedBy |-> call.prv,
                       expectedSigner |-> expectedSigner, err |-> res.err,
                       Signature |-> res.Signature]
    /\ UNCHANGED <<lastCheque, history, outcome, locked, mutex, pc, snap, incoming, verdict>>

\* VerifySig on a cheque that arrives with any signature
CallVerifySig ==
    /\ call = Idle
    /\ \E base \in PlainCheques, expectedSigner \in Addresses :
          \E sg \in SignaturesFor(base) :
             LET c == [base EXCEPT !.Signature = sg]
                 res == VerifySig(c, expectedSigner)
             IN  call' = [op |-> "VerifySig", cheque |-> c, signedBy |-> InvalidKey,
                          expectedSigner |-> expectedSigner, err |-> res.err,
                          Signature |-> res.Signature]
    /\ UNCHANGED <<lastCheque, history, outcome, locked, mutex, pc, snap, incoming, verdict>>

CallVerifyChequeProperties ==
    /\ call = Idle
    /\ \E c \in ContractAddresses, b \in Beneficiaries, s \in {Uint64(1), MaxUint64},
          a \in {Uint64(100), MaxUint64}, t \in Timeouts,
          p \in Peers, expectedBeneficiary \in Beneficiaries :
          LET base == MkCheque(c, b, s, a, t, Uint64(1), NilBytes)
          IN  \E sg \in SignaturesFor(base) :
                LET cheque == [base EXCEPT !.Signature = sg]
                IN  call' = [op |-> "verifyChequeProperties", cheque |-> cheque, p |-> p,
                             expectedBeneficiary |-> expectedBeneficiary,
                             err |-> verifyChequeProperties(cheque, p, expectedBeneficiary)]
    /\ UNCHANGED <<lastCheque, history, outcome, locked, mutex, pc, snap, incoming, verdict>>

CallVerifyChequeAgainstLast ==
    /\ call = Idle
    /\ \E c \in PlainCheques, last \in PlainCheques \cup {NoCheque},
          expectedAmount \in ExpectedAmounts :
          LET res == verifyChequeAgainstLast(c, last, expectedAmount)
          IN  call' = [op |-> "verifyChequeAgainstLast", cheque |-> c, lastCheque |-> last,
                       expectedAmount |-> expectedAmount,
                       amount |-> res.amount, err |-> res.err]
    /\ UNCHANGED <<lastCheque, history, outcome, locked, mutex, pc, snap, incoming, verdict>>

Return ==
    /\ call # Idle
    /\ call' = Idle
    /\ UNCHANGED <<lastCheque, history, outcome, locked, mutex, pc, snap, incoming, verdict>>

Receivers == {1, 2}

NoOutcome == [op |-> "none"]

InitChannel ==
    /\ lastCheque = NoCheque
    /\ history = <<>>
    /\ outcome = NoOutcome
    /\ mutex = 0
    /\ pc = [r \in Receivers |-> "idle"]
    /\ snap = [r \in Receivers |-> NoCheque]
    /\ incoming = [r \in Receivers |-> NoCheque]
    /\ verdict = [r \in Receivers |-> NoOutcome]

Init ==
    /\ call = Idle
    /\ locked = TRUE
    /\ InitChannel

Next ==
    \/ CallEncode
    \/ CallEqual
    \/ CallSign
    \/ CallVerifySigned
    \/ CallVerifySig
    \/ CallVerifyChequeProperties
    \/ CallVerifyChequeAgainstLast
    \/ Return

Spec == Init /\ [][Next]_vars

(***************************************************************************)
(* One channel: the receiving side keeps the last accepted cheque and      *)
(* adopts an incoming cheque when verifyChequeProperties and               *)
(* verifyChequeAgainstLast both pass.  history lists the adoptions: the    *)
(* serial and amount of the cheque, the amount returned for it and the     *)
(* serial and amount of the cheque it was verified against.                *)
(***************************************************************************)
\* the counterparty of the channel: its contract and its signing identity
ChannelPeer == [contractAddress |-> Address(200), beneficiary |-> PubkeyToAddress(1)]

\* this side's settlement identity
Self == Address(2)

\* the counterparty's well-formed cheque for a serial and an amount
GoodCheque(s, a) ==
    LET c == MkCheque(ChannelPeer.contractAddress, Self, s, a, U64Zero, Uint64(1), NilBytes)
    IN  [c EXCEPT !.Signature = Sign(c, 1, 0).sig]

\* what may arrive: the well-formed cheques for every serial and amount, and
\* for every serial a cheque with one thing wrong: the contract, the
\* beneficiary, the timeout, the signer, the signature missing
IncomingCheques ==
    {GoodCheque(s, a) : s \in Serials, a \in Amounts}
    \cup UNION {
        LET c == MkCheque(ChannelPeer.contractAddress, Self, s, Uint64(MaxAmount),
                          U64Zero, Uint64(1), NilBytes)
            sign(x, k) == [x EXCEPT !.Signature = Sign(x, k, 0).sig]
        IN  {sign([c EXCEPT !.Contract = Address(201)], 1),
             sign([c EXCEPT !.Beneficiary = Address(1)], 1),
             sign([c EXCEPT !.Timeout = Uint64(5)], 1),
             sign(c, MaxKey),
             c}
        : s \in Serials}

\* what the adoption log keeps of a cheque
Brief(cheque) ==
    IF cheque = NoCheque THEN NoCheque
                         ELSE [Serial |-> cheque.Serial, Amount |-> cheque.Amount]

\* the increments the accounting side may expect of a cheque
ExpectedFor(cheque, last) ==
    {cheque.Amount, Uint64(1)}
    \cup (IF last = NoCheque THEN {} ELSE {U64Sub(cheque.Amount, last.Amount)})

Receive ==
    /\ outcome = NoOutcome
    /\ Len(history) < MaxHistory
    /\ \E cheque \in IncomingCheques :
          \E expectedAmount \in ExpectedFor(cheque, lastCheque) :
             LET propErr == verifyChequeProperties(cheque, ChannelPeer, Self)
                 res == verifyChequeAgainstLast(cheque, lastCheque, expectedAmount)
                 attempt == [op |-> "receive", cheque |-> cheque,
                             expectedAmount |-> expectedAmount, prev |-> lastCheque]
             IN  IF propErr # Nil
                     THEN /\ outcome' = attempt @@ [err |-> propErr, amount |-> U64Zero]
                          /\ UNCHANGED <<lastCheque, history>>
                 ELSE IF res.err # Nil
                     THEN /\ outcome' = attempt @@ [err |-> res.err, amount |-> res.amount]
                          /\ UNCHANGED <<lastCheque, history>>
                 ELSE /\ outcome' = attempt @@ [err |-> Nil, amount |-> res.amount]
                      /\ lastCheque' = cheque
                      /\ history' = Append(history, [cheque |-> Brief(cheque), amount |-> res.amount,
                                                     against |-> Brief(lastCheque)])
    /\ UNCHANGED <<call, locked, mutex, pc, snap, incoming, verdict>>

\* the caller takes the result of the attempt
Reply ==
    /\ outcome # NoOutcome
    /\ outcome' = NoOutcome
    /\ UNCHANGED <<call, lastCheque, history, locked, mutex, pc, snap, incoming, verdict>>

NextChannel == Receive \/ Reply

SpecChannel == Init /\ [][NextChannel]_vars

(***************************************************************************)
(* Two receivers on one channel.  Each reads the last cheque, verifies its *)
(* incoming cheque against what it read and writes it as the new last      *)
(* cheque.  With locked the three steps run under the channel's mutex;     *)
(* without it they interleave freely.                                      *)
(***************************************************************************)
\* the cheques in flight: serial s for the cumulative amount s, or for the
\* largest amount
RaceCheques ==
    UNION {{MkCheque(ChannelPeer.contractAddress, Self, Uint64(s), Uint64(a),
                     U64Zero, Uint64(1), NilBytes) : a \in {s, MaxAmount}}
           : s \in 1..MaxSerial}

Read(r) ==
    /\ pc[r] = "idle"
    /\ Len(history) < MaxHistory
    /\ locked => mutex = 0
    /\ mutex' = IF locked THEN r ELSE mutex
    /\ \E cheque \in RaceCheques : incoming' = [incoming EXCEPT ![r] = cheque]
    /\ snap' = [snap EXCEPT ![r] = lastCheque]
    /\ pc' = [pc EXCEPT ![r] = "verify"]
    /\ UNCHANGED <<call, lastCheque, history, outcome, locked, verdict>>

Verify(r) ==
    /\ pc[r] = "verify"
    /\ \E expectedAmount \in ExpectedFor(incoming[r], snap[r]) :
          verdict' = [verdict EXCEPT ![r] =
                         verifyChequeAgainstLast(incoming[r], snap[r], expectedAmount)]
    /\ pc' = [pc EXCEPT ![r] = "write"]
    /\ UNCHANGED <<call, lastCheque, history, outcome, locked, mutex, snap, incoming>>

Write(r) ==
    /\ pc[r] = "write"
    /\ IF verdict[r].err = Nil
          THEN /\ lastCheque' = incoming[r]
               /\ history' = Append(history, [cheque |-> Brief(incoming[r]), amount |-> verdict[r].amount,
                                              against |-> Brief(snap[r])])
          ELSE UNCHANGED <<lastCheque, history>>
    /\ mutex' = IF locked THEN 0 ELSE mutex
    /\ pc' = [pc EXCEPT ![r] = "idle"]
    /\ snap' = [snap EXCEPT ![r] = NoCheque]
    /\ incoming' = [incoming EXCEPT ![r] = NoCheque]
    /\ verdict' = [verdict EXCEPT ![r] = NoOutcome]
    /\ UNCHANGED <<call, outcome, locked>>

InitRace ==
    /\ call = Idle
    /\ locked \in BOOLEAN
    /\ InitChannel

NextRace == \E r \in Receivers : Read(r) \/ Verify(r) \/ Write(r)

SpecRace == InitRace /\ [][NextRace]_vars

(***************************************************************************)
(* Properties of the pure functions, over every call of Spec.              *)
(***************************************************************************)
\* the error classes of the ParameterMismatch kind
IsParameterMismatch(err) == err.class = "wrong cheque parameters"

\* C1: with a previous cheque present, verifyChequeAgainstLast fails whenever
\* the serial or the amount is not strictly larger than the previous one's
\* (whatever the expected amount), and succeeds returning exactly
\* amount - lastAmount when both are strictly larger and that difference is
\* the expected amount.
C1_Monotonicity ==
    (call.op = "verifyChequeAgainstLast" /\ call.lastCheque # NoCheque) =>
        LET c == call.cheque
            l == call.lastCheque
        IN  /\ (~U64Less(l.Serial, c.Serial) \/ ~U64Less(l.Amount, c.Amount))
                  => call.err # Nil
            /\ (/\ U64Less(l.Serial, c.Serial)
                /\ U64Less(l.Amount, c.Amount)
                /\ U64Add(call.expectedAmount, l.Amount) = c.Amount)
                  => /\ call.err = Nil
                     /\ call.amount = call.expectedAmount
                     /\ U64Add(call.amount, l.Amount) = c.Amount
                     /\ U64LessEq(call.amount, c.Amount)

\* a successful call against a previous cheque whose difference borrows
\* across a 16-bit boundary
C1_Witness ==
    /\ call.op = "verifyChequeAgainstLast"
    /\ call.lastCheque # NoCheque
    /\ call.lastCheque.Amount = Uint64(1)
    /\ call.cheque.Amount = <<0, 0, 1, 0>>
    /\ call.err = Nil
    /\ call.amount = Uint64(LimbBase - 1)

\* C4: verifyChequeProperties succeeds exactly when the contract is the
\* peer's, VerifySig against the peer's beneficiary succeeds, the beneficiary
\* is the expected one and the timeout is 0.
C4_PropertiesIff ==
    call.op = "verifyChequeProperties" =>
        (call.err = Nil <=>
            /\ call.cheque.Contract = call.p.contractAddress
            /\ VerifySig(call.cheque, call.p.beneficiary).err = Nil
            /\ call.cheque.Beneficiary = call.expectedBeneficiary
            /\ call.cheque.Timeout = U64Zero)

\* a successful call on a cheque whose signer is not its beneficiary field
C4_Witness ==
    /\ call.op = "verifyChequeProperties"
    /\ call.err = Nil
    /\ call.p.beneficiary # call.cheque.Beneficiary

\* C5 as stated: a cheque with a timeout other than 0 always fails with a
\* ParameterMismatch error.
C5_TimeoutAlwaysParameterMismatch ==
    (call.op = "verifyChequeProperties" /\ call.cheque.Timeout # U64Zero) =>
        IsParameterMismatch(call.err)

\* C5 amended: a cheque with a timeout other than 0 always fails; the error is
\* a ParameterMismatch error when the contract differs from the peer's or the
\* signature verifies against the peer's beneficiary, and it is VerifySig's
\* error when the contract matches and the signature does not verify.
C5_TimeoutFails ==
    (call.op = "verifyChequeProperties" /\ call.cheque.Timeout # U64Zero) =>
        LET sigErr == VerifySig(call.cheque, call.p.beneficiary).err
        IN  /\ call.err # Nil
            /\ (call.cheque.Contract # call.p.contractAddress \/ sigErr = Nil)
                  => IsParameterMismatch(call.err)
            /\ (call.cheque.Contract = call.p.contractAddress /\ sigErr # Nil)
                  => (call.err = sigErr /\ ~IsParameterMismatch(call.err))

\* a cheque that is right in everything but its timeout is refused for it
C5_Witness ==
    /\ call.op = "verifyChequeProperties"
    /\ call.cheque.Timeout # U64Zero
    /\ call.cheque.Contract = call.p.contractAddress
    /\ call.cheque.Beneficiary = call.expectedBeneficiary
    /\ VerifySig(call.cheque, call.p.beneficiary).err = Nil
    /\ call.err.what = "timeout"

\* C6: verifyChequeAgainstLast reports the serial error whenever a previous
\* cheque is present and the serial did not increase, the amount error only
\* when the serial increased, the unexpected-amount error only when both
\* checks passed or there is no previous cheque, and 0 with every error.
C6_ErrorPrecedence ==
    call.op = "verifyChequeAgainstLast" =>
        LET c == call.cheque
            l == call.lastCheque
        IN  /\ (l # NoCheque /\ ~U64Less(l.Serial, c.Serial))
                  => (IsParameterMismatch(call.err) /\ call.err.what = "serial")
            /\ (IsParameterMismatch(call.err) /\ call.err.what = "amount")
                  => (l # NoCheque /\ U64Less(l.Serial, c.Serial) /\ ~U64Less(l.Amount, c.Amount))
            /\ call.err.class = "unexpected amount for honey"
                  => (l = NoCheque \/ (U64Less(l.Serial, c.Serial) /\ U64Less(l.Amount, c.Amount)))
            /\ call.err # Nil => call.amount = U64Zero

\* serial equal, amount not larger and not the expected one: the serial error
C6_Witness ==
    /\ call.op = "verifyChequeAgainstLast"
    /\ call.lastCheque # NoCheque
    /\ call.cheque.Serial = call.lastCheque.Serial
    /\ U64Less(call.cheque.Amount, call.lastCheque.Amount)
    /\ call.expectedAmount # U64Sub(call.cheque.Amount, call.lastCheque.Amount)
    /\ call.err.what = "serial"
    /\ call.amount = U64Zero

\* the fields of the Cheque data model in which two cheques differ
DifferingFields(x, y) ==
    {f \in {"Contract", "Beneficiary", "Serial", "Amount", "Timeout", "Honey"} : x[f] # y[f]}
    \cup (IF BytesEqual(x.Signature, y.Signature) THEN {} ELSE {"Signature"})

\* C7: Equal is reflexive, symmetric, and false whenever the two cheques
\* differ in exactly one field of the data model (contract, beneficiary,
\* serial, amount, timeout, honey, signature bytes).
C7_EqualStructural ==
    call.op = "Equal" =>
        /\ call.self
        /\ call.result = call.converse
        /\ Cardinality(DifferingFields(call.cheque, call.other)) = 1 => ~call.result

\* C8: a signature made by Sign with key K carries 27 or 28 in its last byte;
\* stored in the cheque it makes VerifySig succeed for address(K) and fail
\* with the invalid-signature error for every other address, and VerifySig
\* leaves the stored signature as it was.
C8_SignVerifyRoundTrip ==
    /\ (call.op = "Sign" /\ call.prv \in Keys) =>
          (call.err = Nil /\ call.sig.len = 65 /\ call.sig.v \in {27, 28})
    /\ (call.op = "VerifySig" /\ call.signedBy \in Keys) =>
          /\ call.expectedSigner = PubkeyToAddress(call.signedBy) => call.err = Nil
          /\ call.expectedSigner # PubkeyToAddress(call.signedBy)
                => call.err = ErrInvalidChequeSignature
          /\ call.Signature = call.cheque.Signature
          /\ call.Signature.v \in {27, 28}

\* a signed cheque verified against its signer's address, recovery id 1
C8_Witness ==
    /\ call.op = "VerifySig"
    /\ call.signedBy \in Keys
    /\ call.expectedSigner = PubkeyToAddress(call.signedBy)
    /\ call.cheque.Timeout # U64Zero
    /\ call.cheque.Signature.v = 28
    /\ call.err = Nil

\* the uint64 held big-endian in the low 8 bytes of the 32-byte field that
\* starts after offset off, provided the high 24 bytes are zero
FieldValue(bytes, off) ==
    [j \in 1..4 |-> bytes[off + 24 + 2 * j - 1] * 256 + bytes[off + 24 + 2 * j]]

WellFormedEncoding(bytes, cheque) ==
    /\ Len(bytes) = 20 + 20 + 32 + 32 + 32
    /\ \A off \in {40, 72, 104} : \A i \in 1..24 : bytes[off + i] = 0
    /\ \A i \in 1..Len(bytes) : bytes[i] \in 0..255
    /\ FieldValue(bytes, 40) = cheque.Serial
    /\ FieldValue(bytes, 72) = cheque.Amount
    /\ FieldValue(bytes, 104) = cheque.Timeout

SameSignedFields(x, y) ==
    /\ x.Contract = y.Contract
    /\ x.Beneficiary = y.Beneficiary
    /\ x.Serial = y.Serial
    /\ x.Amount = y.Amount
    /\ x.Timeout = y.Timeout

\* C9: two cheques encode to the same bytes exactly when they agree on
\* contract, beneficiary, serial, amount and timeout (honey and signature
\* play no part); the encoding is 136 bytes long and holds each uint64
\* big-endian in the low 8 bytes of its 32-byte field, the high 24 being 0.
C9_EncodingInjective ==
    call.op = "encodeForSignature" =>
        /\ (call.bytes = call.otherBytes <=> SameSignedFields(call.cheque, call.other))
        /\ WellFormedEncoding(call.bytes, call.cheque)
        /\ WellFormedEncoding(call.otherBytes, call.other)

\* two cheques that differ in honey and signature only, with an amount using
\* all eight bytes, encode alike
C9_Witness ==
    /\ call.op = "encodeForSignature"
    /\ call.cheque.Honey # call.other.Honey
    /\ call.cheque.Signature # call.other.Signature
    /\ call.cheque.Amount = Bytes1To8
    /\ call.cheque.Timeout # U64Zero
    /\ call.bytes = call.otherBytes
    /\ SubSeq(call.bytes, 97, 104) = <<1, 2, 3, 4, 5, 6, 7, 8>>

(***************************************************************************)
(* Properties of the channel.                                              *)
(***************************************************************************)
\* the adoption before the i-th one, NoCheque before the first
Predecessor(i) == IF i = 1 THEN NoCheque ELSE history[i - 1].cheque

\* every adoption after the first is strictly larger, in serial and in
\* amount, than the adoption before it
StrictlyIncreasing ==
    \A i \in 2..Len(history) :
        /\ U64Less(history[i - 1].cheque.Serial, history[i].cheque.Serial)
        /\ U64Less(history[i - 1].cheque.Amount, history[i].cheque.Amount)

\* C2: every adoption replaces the last cheque by one strictly larger in
\* serial and in amount, a cheque is adopted only when it is the
\* counterparty's well-formed cheque for this side, and an attempt that
\* fails returns an error and leaves the last accepted cheque as it was.
C2_ForwardOnly ==
    /\ StrictlyIncreasing
    /\ Brief(lastCheque) = (IF history = <<>> THEN NoCheque ELSE history[Len(history)].cheque)
    /\ lastCheque # NoCheque =>
          lastCheque = GoodCheque(lastCheque.Serial, lastCheque.Amount)
    /\ outcome # NoOutcome =>
          IF outcome.err = Nil
              THEN /\ lastCheque = outcome.cheque
                   /\ history[Len(history)].against = Brief(outcome.prev)
                   /\ outcome.prev # NoCheque =>
                         /\ U64Less(outcome.prev.Serial, outcome.cheque.Serial)
                         /\ U64Less(outcome.prev.Amount, outcome.cheque.Amount)
              ELSE /\ lastCheque = outcome.prev
                   /\ outcome.amount = U64Zero

\* a stale cheque (serial not larger) refused after two adoptions, the last
\* cheque kept
C2_Witness ==
    /\ Len(history) = 2
    /\ outcome # NoOutcome
    /\ outcome.err # Nil
    /\ outcome.err.what = "serial"
    /\ Brief(outcome.cheque) = history[1].cheque
    /\ Brief(lastCheque) = history[2].cheque

\* a + x where a has five limbs and x is a uint64: the sum without wrapping
WideAdd(a, x) ==
    LET s5 == a[5] + x[4]
        s4 == a[4] + x[3] + (s5 \div LimbBase)
        s3 == a[3] + x[2] + (s4 \div LimbBase)
        s2 == a[2] + x[1] + (s3 \div LimbBase)
        s1 == a[1] + (s2 \div LimbBase)
    IN  <<s1, s2 % LimbBase, s3 % LimbBase, s4 % LimbBase, s5 % LimbBase>>

RECURSIVE CreditedUpTo(_)
\* the sum of the amounts returned for the first n adoptions
CreditedUpTo(n) ==
    IF n = 0 THEN <<0, 0, 0, 0, 0>> ELSE WideAdd(CreditedUpTo(n - 1), history[n].amount)

\* C10: the amounts returned for the adopted cheques add up to the amount of
\* the last accepted cheque; the first adoption returns its cheque's amount
\* whatever its serial; and every later one returns a difference that did
\* not wrap: the returned amount plus the previous amount is the cheque's
\* amount and the previous amount is smaller.
C10_ValueConservation ==
    /\ CreditedUpTo(Len(history)) =
          (IF lastCheque = NoCheque THEN <<0, 0, 0, 0, 0>> ELSE <<0>> \o lastCheque.Amount)
    /\ \A i \in 1..Len(history) :
          IF history[i].against = NoCheque
              THEN history[i].amount = history[i].cheque.Amount
              ELSE /\ U64Less(history[i].against.Amount, history[i].cheque.Amount)
                   /\ WideAdd(<<0>> \o history[i].against.Amount, history[i].amount)
                         = <<0>> \o history[i].cheque.Amount

\* three adoptions starting from serial 0, the last difference borrowing
\* across a 16-bit boundary
C10_Witness ==
    /\ Len(history) = 3
    /\ history[1].cheque.Serial = U64Zero
    /\ history[1].amount = Uint64(1)
    /\ history[3].cheque.Amount = <<0, 0, 1, 0>>
    /\ history[3].amount = Uint64(LimbBase - 2)
    /\ Brief(lastCheque) = history[3].cheque

\* C3: when the channel runs read-verify-update under its mutex, every
\* adoption was verified against the adoption before it, no two adoptions
\* were verified against the same cheque and the adoptions are strictly
\* increasing in serial and amount.  (Without the mutex the state of
\* C3_Witness is reachable.)
C3_SerializedIsMonotonic ==
    locked =>
        /\ \A i \in 1..Len(history) : history[i].against = Predecessor(i)
        /\ \A i, j \in 1..Len(history) : i # j => history[i].against # history[j].against
        /\ StrictlyIncreasing

\* without the mutex: two different cheques both adopted against the same
\* predecessor, and the adoptions not strictly increasing
C3_Witness ==
    /\ ~locked
    /\ \E i, j \in 1..Len(history) :
          /\ i < j
          /\ history[i].against = history[j].against
          /\ history[i].against # NoCheque
          /\ history[i].cheque # history[j].cheque
    /\ ~StrictlyIncreasing

====
